---- MODULE Spec2Model ----
(***************************************************************************)
(* The claude-mem HTTP client (ClaudeMemClient) and the plugin adapter     *)
(* that binds it to a host: tool factories and the afterAgentResponse      *)
(* hook.  Each asynchronous method is a sequence of atomic steps separated *)
(* by its awaits (fetch, res.json()); the remote service and the abort     *)
(* timer are the environment.  Request paths are relative to the client's  *)
(* baseUrl, which no step ever changes.                                    *)
(***************************************************************************)
EXTENDS Integers, Sequences, FiniteSets, TLC

\* ------------------------------------------------------------------ bounds
\* Longest array a response body carries.
MaxItems == 2
\* Largest explicit limit a caller passes.
MaxLimit == 5
\* How far a response text may exceed the capture cut-off.
ExtraChars == 1
\* Granularity of the clock, in milliseconds.
TickMs == 2500

\* ------------------------------------------------------- program constants
HealthTimeoutMs == 3000
StatsTimeoutMs == 5000
RequestTimeoutMs == 10000
DecisionsDefaultLimit == 20
HowItWorksFallbackLimit == 10
ToolSearchDefaultLimit == 10
ToolTimelineDefaultLimit == 20
ToolContextDefaultLimit == 5
MinCaptureLength == 100
MaxContentLength == 1000

Min(a, b) == IF a <= b THEN a ELSE b

\* --------------------------------------------------------------- JS values
\* A JavaScript value is a record with a type tag t and a payload v.  A short
\* string whose characters never matter (a query, a type name, a session id)
\* is Str; a text that is measured and sliced is Text, a sequence of
\* characters.  An object parsed from JSON carries the four fields the client
\* ever reads; a field the object does not have is Undefined.
Undefined == [t |-> "undefined", v |-> <<>>]
Null == [t |-> "null", v |-> <<>>]
Bool(b) == [t |-> "boolean", v |-> <<b>>]
Num(n) == [t |-> "number", v |-> <<n>>]
Str(s) == [t |-> "string", v |-> <<s>>]
Text(cs) == [t |-> "string", v |-> cs]
Arr(items) == [t |-> "array", v |-> items]
Obj(r, o, i, ver) ==
    [t |-> "object", v |-> <<>>, results |-> r, observations |-> o,
     id |-> i, version |-> ver]
EmptyArray == Arr(<<>>)
EmptyObject == Obj(Undefined, Undefined, Undefined, Undefined)

\* x == null || x === undefined, the test behind ?? .
Nullish(x) == x.t \in {"undefined", "null"}

\* a ?? b
Coalesce(a, b) == IF Nullish(a) THEN b ELSE a

\* ToBoolean(x), the test behind && and ! .
Truthy(x) ==
    CASE x.t \in {"undefined", "null"} -> FALSE
      [] x.t = "boolean" -> x.v[1]
      [] x.t = "number" -> x.v[1] # 0
      [] x.t = "string" -> x.v # <<>> /\ x.v # <<"">>
      [] OTHER -> TRUE

\* String(x) of a number or a string.
String(x) == IF x.t = "number" THEN ToString(x.v[1]) ELSE x.v[1]

\* data.field for a value that is not null or undefined: the field of an
\* object, undefined for an array or a primitive.
Get(data, field) == IF data.t = "object" THEN data[field] ELSE Undefined

\* s.slice(0, end) of a text.
Slice(s, end) == Text(SubSeq(s.v, 1, Min(end, Len(s.v))))

\* ------------------------------------------------------------ completions
\* What a step of an async method does next: return a value, let an error
\* escape, await res.json(), issue another fetch, or call another method of
\* the client (which issues that method's fetch).
Return(value) == [k |-> "return", value |-> value]
Throw(error) == [k |-> "throw", value |-> error]
AwaitJson == [k |-> "json", value |-> Undefined]
AwaitFetch(req) == [k |-> "fetch", value |-> Undefined, req |-> req]
AwaitCall(method, req) ==
    [k |-> "call", value |-> Undefined, req |-> req, method |-> method]

Error(name, message) == [t |-> "error", v |-> <<name, message>>]
TimeoutError == Error("TimeoutError", "The operation was aborted due to timeout")
NetworkError == Error("TypeError", "fetch failed")
SyntaxError == Error("SyntaxError", "Unexpected token in JSON")
NullAccess == Error("TypeError", "Cannot read properties of null")

\* res.ok
Ok(status) == status >= 200 /\ status <= 299

\* ...(x && { key: String(x) }) inside the URLSearchParams initialiser.
OptParam(key, x) == IF Truthy(x) THEN << <<key, String(x)>> >> ELSE <<>>

Request(method, path, params, body, timeout) ==
    [method |-> method, path |-> path, params |-> params, body |-> body,
     timeout |-> timeout]

\* ---------------------------------------------------- ClaudeMemClient.getStatus
getStatus_request ==
    Request("GET", "/api/health", <<>>, <<>>, HealthTimeoutMs)

getStatus_catch(err) ==
    Return([running |-> FALSE, version |-> Undefined,
            error |-> IF err.t = "error" THEN Str(err.v[2])
                      ELSE Str("Connection failed")])

getStatus_afterFetch(status) ==
    IF Ok(status) THEN AwaitJson
    ELSE Return([running |-> FALSE, version |-> Undefined,
                 error |-> Str("HTTP " \o ToString(status))])

getStatus_afterJson(data) ==
    IF Nullish(data) THEN getStatus_catch(NullAccess)
    ELSE Return([running |-> TRUE, version |-> Get(data, "version"),
                 error |-> Undefined])

\* ------------------------------------------------------- ClaudeMemClient.search
search_request(query, options) ==
    Request("GET", "/api/search",
            << <<"query", query>> >> \o OptParam("limit", options.limit)
                \o OptParam("type", options.type)
                \o OptParam("max_date", options.maxDate),
            <<>>, RequestTimeoutMs)

search_catch(err) == Return(EmptyArray)

search_afterFetch(status) ==
    IF ~Ok(status)
    THEN search_catch(Error("Error", "Search failed: " \o ToString(status)))
    ELSE AwaitJson

search_afterJson(data) ==
    IF Nullish(data) THEN search_catch(NullAccess)
    ELSE Return(Coalesce(Get(data, "results"), Coalesce(data, EmptyArray)))

\* -------------------------------------------------- ClaudeMemClient.getTimeline
getTimeline_request(options) ==
    Request("GET", "/api/timeline",
            OptParam("observation_id", options.observationId)
                \o OptParam("limit", options.limit),
            <<>>, RequestTimeoutMs)

getTimeline_catch(err) == Return(EmptyArray)

getTimeline_afterFetch(status) ==
    IF ~Ok(status)
    THEN getTimeline_catch(Error("Error", "Timeline failed: " \o ToString(status)))
    ELSE AwaitJson


\* getTimeline reading the wrapper field of search.
getTimeline_afterJsonWrongField(data) ==
    IF Nullish(data) THEN getTimeline_catch(NullAccess)
    ELSE Return(Coalesce(Get(data, "results"), Coalesce(data, EmptyArray)))

getTimeline_afterJson(data) ==
    IF Nullish(data) THEN getTimeline_catch(NullAccess)
    ELSE Return(Coalesce(Get(data, "observations"), Coalesce(data, EmptyArray)))

\* --------------------------------------------- ClaudeMemClient.getRecentContext
getRecentContext_params(options) ==
    OptParam("project_path", options.projectPath)
        \o OptParam("limit", options.limit)

getRecentContext_request(options) ==
    Request("GET", "/api/context/recent", getRecentContext_params(options),
            <<>>, RequestTimeoutMs)

getRecentContext_inject(options) ==
    Request("GET", "/api/context/inject", getRecentContext_params(options),
            <<>>, RequestTimeoutMs)

getRecentContext_catch(err) == Return(EmptyArray)


\* getRecentContext failing at once on a non-success status, as the other
\* methods do.
getRecentContext_afterFetchNoFallback(options, status) ==
    IF ~Ok(status)
    THEN getRecentContext_catch(
             Error("Error", "Context failed: " \o ToString(status)))
    ELSE AwaitJson

\* After the primary fetch resolves.
getRecentContext_afterFetch(options, status) ==
    IF ~Ok(status) THEN AwaitFetch(getRecentContext_inject(options))
    ELSE AwaitJson

\* After the fallback fetch resolves; the error names the primary's status.
getRecentContext_afterInject(primaryStatus, injectStatus) ==
    IF ~Ok(injectStatus)
    THEN getRecentContext_catch(
             Error("Error", "Context failed: " \o ToString(primaryStatus)))
    ELSE AwaitJson

getRecentContext_afterJson(data) ==
    IF Nullish(data) THEN getRecentContext_catch(NullAccess)
    ELSE Return(Coalesce(Get(data, "observations"), Coalesce(data, EmptyArray)))

\* ----------------------------------------------- ClaudeMemClient.addObservation

\* addObservation passing concepts and files on without a default.
addObservation_requestNoDefaults(params) ==
    Request("POST", "/api/sessions/observations", <<>>,
            << [type |-> params.type,
                content |-> params.content,
                concepts |-> params.concepts,
                files |-> params.files,
                session_id |-> params.sessionId] >>,
            RequestTimeoutMs)

addObservation_request(params) ==
    Request("POST", "/api/sessions/observations", <<>>,
            << [type |-> params.type,
                content |-> params.content,
                concepts |-> Coalesce(params.concepts, EmptyArray),
                files |-> Coalesce(params.files, EmptyArray),
                session_id |-> params.sessionId] >>,
            RequestTimeoutMs)

addObservation_catch(err) == Return([success |-> FALSE, id |-> Undefined])

addObservation_afterFetch(status) ==
    IF ~Ok(status)
    THEN addObservation_catch(
             Error("Error", "Add observation failed: " \o ToString(status)))
    ELSE AwaitJson

addObservation_afterJson(data) ==
    IF Nullish(data) THEN addObservation_catch(NullAccess)
    ELSE Return([success |-> TRUE, id |-> Get(data, "id")])

\* ----------------------------------------------------- ClaudeMemClient.getStats

\* getStats with the 10 s timeout of the other requests.
getStats_requestLongTimeout ==
    Request("GET", "/api/stats", <<>>, <<>>, RequestTimeoutMs)

getStats_request ==
    Request("GET", "/api/stats", <<>>, <<>>, StatsTimeoutMs)


\* getStats with a catch that rethrows.
getStats_catchRethrows(err) == Throw(err)

getStats_catch(err) == Return(EmptyObject)

getStats_afterFetch(status) ==
    IF ~Ok(status)
    THEN getStats_catch(Error("Error", "Stats failed: " \o ToString(status)))
    ELSE AwaitJson

getStats_afterJson(data) == Return(data)

\* ------------------------------------------------- ClaudeMemClient.searchByType
searchByType_request(type, options) ==
    Request("GET", "/api/search/by-type",
            << <<"type", String(Coalesce(type, Str("discovery")))>> >>
                \o OptParam("limit", options.limit),
            <<>>, RequestTimeoutMs)

searchByType_catch(err) == Return(EmptyArray)

searchByType_afterFetch(status) ==
    IF ~Ok(status)
    THEN searchByType_catch(
             Error("Error", "Search by type failed: " \o ToString(status)))
    ELSE AwaitJson

searchByType_afterJson(data) ==
    IF Nullish(data) THEN searchByType_catch(NullAccess)
    ELSE Return(Coalesce(Get(data, "observations"), Coalesce(data, EmptyArray)))

\* ------------------------------------------------- ClaudeMemClient.getDecisions
\* limit = 20 applies when the argument is undefined.
getDecisions_request(limit) ==
    searchByType_request(
        Str("decision"),
        [limit |-> IF limit.t = "undefined" THEN Num(DecisionsDefaultLimit)
                   ELSE limit])

\* ------------------------------------------------ ClaudeMemClient.getHowItWorks
getHowItWorks_request(query) ==
    Request("GET", "/api/how-it-works", << <<"query", query>> >>, <<>>,
            RequestTimeoutMs)


\* getHowItWorks falling back to search on any failure, not only on a
\* non-success status.
getHowItWorks_catchFallsBack(query, err) ==
    AwaitCall("search",
              search_request(query,
                             [limit |-> Num(HowItWorksFallbackLimit),
                              type |-> Undefined, maxDate |-> Undefined]))

getHowItWorks_catch(query, err) == Return(EmptyArray)


\* getHowItWorks falling back to a search that passes no limit.
getHowItWorks_afterFetchNoLimit(query, status) ==
    IF ~Ok(status)
    THEN AwaitCall("search",
                   search_request(query,
                                  [limit |-> Undefined, type |-> Undefined,
                                   maxDate |-> Undefined]))
    ELSE AwaitJson

getHowItWorks_afterFetch(query, status) ==
    IF ~Ok(status)
    THEN AwaitCall("search",
                   search_request(query,
                                  [limit |-> Num(HowItWorksFallbackLimit),
                                   type |-> Undefined, maxDate |-> Undefined]))
    ELSE AwaitJson

getHowItWorks_afterJson(query, data) ==
    IF Nullish(data) THEN getHowItWorks_catch(query, NullAccess)
    ELSE Return(Coalesce(Get(data, "results"), Coalesce(data, EmptyArray)))

\* ------------------------------------------------------------ plugin adapter
\* const config = ctx.config ?? {}
Config(enabled, autoCapture, maxResults) ==
    [t |-> "object", v |-> <<>>, enabled |-> enabled,
     autoCapture |-> autoCapture, maxResults |-> maxResults]

ConfigOrEmpty(config) ==
    IF Nullish(config) THEN Config(Undefined, Undefined, Undefined) ELSE config

\* x === false
IsFalse(x) == x = Bool(FALSE)

NoTool == [name |-> "none", present |-> FALSE, config |-> Undefined]
Tool(name, config) == [name |-> name, present |-> TRUE, config |-> config]
Absent(name, config) == [name |-> name, present |-> FALSE, config |-> config]

\* The three tool factories: null when config.enabled === false.
claudemem_search_factory(ctxConfig) ==
    IF IsFalse(ConfigOrEmpty(ctxConfig).enabled)
    THEN Absent("claudemem_search", ConfigOrEmpty(ctxConfig))
    ELSE Tool("claudemem_search", ConfigOrEmpty(ctxConfig))


\* The timeline factory testing !config.enabled: unset counts as disabled.
claudemem_timeline_factoryFalsy(ctxConfig) ==
    IF ~Truthy(ConfigOrEmpty(ctxConfig).enabled)
    THEN Absent("claudemem_timeline", ConfigOrEmpty(ctxConfig))
    ELSE Tool("claudemem_timeline", ConfigOrEmpty(ctxConfig))

claudemem_timeline_factory(ctxConfig) ==
    IF IsFalse(ConfigOrEmpty(ctxConfig).enabled)
    THEN Absent("claudemem_timeline", ConfigOrEmpty(ctxConfig))
    ELSE Tool("claudemem_timeline", ConfigOrEmpty(ctxConfig))

claudemem_context_factory(ctxConfig) ==
    IF IsFalse(ConfigOrEmpty(ctxConfig).enabled)
    THEN Absent("claudemem_context", ConfigOrEmpty(ctxConfig))
    ELSE Tool("claudemem_context", ConfigOrEmpty(ctxConfig))

\* The options each tool's execute passes to the client.
claudemem_search_options(config, input) ==
    [limit |-> Coalesce(input.limit,
                        Coalesce(config.maxResults, Num(ToolSearchDefaultLimit))),
     type |-> input.type, maxDate |-> Undefined]

claudemem_timeline_options(input) ==
    [observationId |-> input.observationId,
     limit |-> Coalesce(input.limit, Num(ToolTimelineDefaultLimit))]

claudemem_context_options(input) ==
    [projectPath |-> input.projectPath,
     limit |-> Coalesce(input.limit, Num(ToolContextDefaultLimit))]

\* What execute returns once the client call has resolved.  Output is the
\* tool's answer; Raised is an error thrown while formatting: a value that
\* is no array has no map, and a null one has no length.
Output(content, count, data) ==
    [state |-> "returned", content |-> content, count |-> count, data |-> data]
Raised(error) ==
    [state |-> "threw", content |-> "", count |-> 0, data |-> error]
Pending == [state |-> "pending", content |-> "", count |-> 0, data |-> Undefined]
NoOutcome == [state |-> "none", content |-> "", count |-> 0, data |-> Undefined]

NotAFunction == Error("TypeError", "map is not a function")

claudemem_search_format(results) ==
    CASE Nullish(results) -> Raised(NullAccess)
      [] results.t = "array" /\ results.v = <<>> ->
            Output("No relevant memories found.", 0, Undefined)
      [] results.t = "array" ->
            Output("Found relevant memories", Len(results.v), results)
      [] OTHER -> Raised(NotAFunction)

claudemem_timeline_format(timeline) ==
    CASE Nullish(timeline) -> Raised(NullAccess)
      [] timeline.t = "array" /\ timeline.v = <<>> ->
            Output("No timeline data available.", 0, Undefined)
      [] timeline.t = "array" ->
            Output("Timeline", Len(timeline.v), timeline)
      [] OTHER -> Raised(NotAFunction)

claudemem_context_format(context) ==
    CASE ~Truthy(context) -> Output("No recent context available.", 0, Undefined)
      [] context.t = "array" /\ context.v = <<>> ->
            Output("No recent context available.", 0, Undefined)
      [] context.t = "array" ->
            Output("Recent context", Len(context.v), context)
      [] OTHER -> Raised(NotAFunction)


\* The hook with its length test off by one: a response of exactly 100
\* characters is not captured.
afterAgentResponse_startOffByOne(ctxConfig, event) ==
    IF \/ IsFalse(ConfigOrEmpty(ctxConfig).enabled)
       \/ IsFalse(ConfigOrEmpty(ctxConfig).autoCapture)
    THEN Return(Undefined)
    ELSE IF ~Truthy(event.response) \/ Len(event.response.v) <= MinCaptureLength
    THEN Return(Undefined)
    ELSE AwaitCall("addObservation",
                   addObservation_request(
                       [type |-> Str("discovery"),
                        content |-> Slice(event.response, MaxContentLength),
                        concepts |-> EmptyArray,
                        files |-> EmptyArray,
                        sessionId |-> event.sessionId]))

\* The afterAgentResponse hook up to its await: return at once, or call
\* addObservation.
afterAgentResponse_start(ctxConfig, event) ==
    IF \/ IsFalse(ConfigOrEmpty(ctxConfig).enabled)
       \/ IsFalse(ConfigOrEmpty(ctxConfig).autoCapture)
    THEN Return(Undefined)
    ELSE IF ~Truthy(event.response) \/ Len(event.response.v) < MinCaptureLength
    THEN Return(Undefined)
    ELSE AwaitCall("addObservation",
                   addObservation_request(
                       [type |-> Str("discovery"),
                        content |-> Slice(event.response, MaxContentLength),
                        concepts |-> EmptyArray,
                        files |-> EmptyArray,
                        sessionId |-> event.sessionId]))

\* The hook after the await: a rejection is caught and logged.
afterAgentResponse_resume(completion) == Output("", 0, Undefined)

\* ------------------------------------------------------------------- inputs
Queries == {"alpha", "beta"}
Limits == {Undefined, Num(0), Num(MaxLimit)}
TypeFilters == {Undefined, Str("bugfix")}
ObservationTypes == {Undefined, Str("decision"), Str("feature")}
MaxDates == {Undefined, Str("2025-01-01")}
ObservationIds == {Undefined, Num(7)}
ProjectPaths == {Undefined, Str("/repo")}
SessionIds == {Undefined, Str("session-1")}
OptBools == {Undefined, Bool(TRUE), Bool(FALSE)}

SearchOptions ==
    {[limit |-> l, type |-> ty, maxDate |-> d] :
        l \in Limits, ty \in TypeFilters, d \in MaxDates}
TimelineOptions ==
    {[observationId |-> i, limit |-> l] : i \in ObservationIds, l \in Limits}
ContextOptions ==
    {[projectPath |-> pp, limit |-> l] : pp \in ProjectPaths, l \in Limits}

OptStringLists == {Undefined, EmptyArray, Arr(<<"tag">>)}
AddObservationParams ==
    {[type |-> Str("bugfix"), content |-> Text(<<"f", "i", "x">>),
      concepts |-> c, files |-> f, sessionId |-> sid] :
        c \in OptStringLists, f \in OptStringLists, sid \in SessionIds}

\* A text of n characters, no two neighbours alike.
Chars(n) == Text([i \in 1..n |-> IF i % 2 = 1 THEN "a" ELSE "b"])
Responses ==
    {Undefined} \cup
    {Chars(n) : n \in {0, MinCaptureLength - 1, MinCaptureLength,
                       MaxContentLength, MaxContentLength + ExtraChars}}
Events == {[response |-> r, sessionId |-> sid] : r \in Responses, sid \in SessionIds}

FactoryConfigs ==
    {Undefined} \cup
    {Config(e, Undefined, m) : e \in OptBools, m \in {Undefined, Num(3)}}
HookConfigs ==
    {Undefined} \cup {Config(e, a, Undefined) : e \in OptBools, a \in OptBools}

SearchInputs ==
    {[query |-> q, limit |-> l, type |-> ty] :
        q \in Queries, l \in Limits, ty \in TypeFilters}
TimelineInputs == TimelineOptions
ContextInputs == ContextOptions

\* What the service may answer.
StatusCodes == {200, 204, 301, 404, 500}
Items(n) == [i \in 1..n |-> i]
Arrays == {Arr(Items(n)) : n \in 0..MaxItems}
Leaves == {Undefined, Null} \cup Arrays
Bodies ==
    {Null, Num(0), Num(7)} \cup Arrays
    \cup {Obj(r, o, Undefined, Undefined) : r \in Leaves, o \in Leaves}
    \cup {Obj(Undefined, Undefined, i, ver) :
            i \in {Undefined, Num(42)}, ver \in {Undefined, Str("9.1.0")}}

\* -------------------------------------------------------------------- state
VARIABLES
    caller,   \* who called the client: "none", "direct", "tool" or "hook"
    op,       \* the public client method called
    args,     \* its arguments
    frame,    \* the client method now running (search inside getHowItWorks)
    pc,       \* "idle", "fetch", "json", "adopt" or "done"
    reqs,     \* the requests issued so far, each with its start time
    outs,     \* how each settled request ended
    now,      \* milliseconds since the call began
    ret,      \* how the public method settled
    inner,    \* how the method it returned a call to settled
    tool,     \* what the last tool factory returned
    outcome   \* how the tool's execute or the hook settled

vars == <<caller, op, args, frame, pc, reqs, outs, now, ret, inner, tool, outcome>>

NoCompletion == [thrown |-> FALSE, value |-> Undefined]
NoArgs == [none |-> TRUE]

Init ==
    /\ caller = "none"
    /\ op = "none"
    /\ args = NoArgs
    /\ frame = "none"
    /\ pc = "idle"
    /\ reqs = <<>>
    /\ outs = <<>>
    /\ now = 0
    /\ ret = NoCompletion
    /\ inner = NoCompletion
    /\ tool = NoTool
    /\ outcome = NoOutcome

\* No call is under way.
Quiet == pc \in {"idle", "done"} /\ outcome.state # "pending"

Issued(req) == [req |-> req, start |-> now]
\* How a request ended: kind is "status" (a non-success status, kept in
\* status), "network", "timeout", "parse" or "ok" (the parsed body in data).
Settled(kind, status, data) ==
    [kind |-> kind, status |-> status, data |-> data, at |-> now]

\* A public method is called and runs to its fetch.
Begin(who, method, a, running, req) ==
    /\ caller' = who
    /\ op' = method
    /\ args' = a
    /\ frame' = running
    /\ pc' = "fetch"
    /\ reqs' = <<[req |-> req, start |-> 0]>>
    /\ outs' = <<>>
    /\ now' = 0
    /\ ret' = NoCompletion
    /\ inner' = NoCompletion

Direct(method, a, running, req) ==
    /\ Begin("direct", method, a, running, req)
    /\ tool' = NoTool
    /\ outcome' = NoOutcome

\* The running method goes on as c says.
Continue(c) ==
    /\ pc' = CASE c.k \in {"return", "throw"} ->
                      IF frame = op THEN "done" ELSE "adopt"
               [] c.k = "json" -> "json"
               [] OTHER -> "fetch"
    /\ reqs' = IF c.k \in {"fetch", "call"}
               THEN Append(reqs, Issued(c.req)) ELSE reqs
    /\ frame' = IF c.k = "call" THEN c.method ELSE frame
    /\ ret' = IF c.k \in {"return", "throw"} /\ frame = op
              THEN [thrown |-> c.k = "throw", value |-> c.value] ELSE ret
    /\ inner' = IF c.k \in {"return", "throw"} /\ frame # op
                THEN [thrown |-> c.k = "throw", value |-> c.value] ELSE inner
    /\ UNCHANGED <<caller, op, args, tool, outcome>>

AfterFetch(status) ==
    CASE frame = "getStatus" -> getStatus_afterFetch(status)
      [] frame = "search" -> search_afterFetch(status)
      [] frame = "getTimeline" -> getTimeline_afterFetch(status)
      [] frame = "getRecentContext" /\ Len(reqs) = 1 ->
            getRecentContext_afterFetch(args.options, status)
      [] frame = "getRecentContext" /\ Len(reqs) = 2 ->
            getRecentContext_afterInject(outs[1].status, status)
      [] frame = "addObservation" -> addObservation_afterFetch(status)
      [] frame = "getStats" -> getStats_afterFetch(status)
      [] frame = "searchByType" -> searchByType_afterFetch(status)
      [] frame = "getHowItWorks" -> getHowItWorks_afterFetch(args.query, status)

AfterJson(data) ==
    CASE frame = "getStatus" -> getStatus_afterJson(data)
      [] frame = "search" -> search_afterJson(data)
      [] frame = "getTimeline" -> getTimeline_afterJson(data)
      [] frame = "getRecentContext" -> getRecentContext_afterJson(data)
      [] frame = "addObservation" -> addObservation_afterJson(data)
      [] frame = "getStats" -> getStats_afterJson(data)
      [] frame = "searchByType" -> searchByType_afterJson(data)
      [] frame = "getHowItWorks" -> getHowItWorks_afterJson(args.query, data)

Catch(err) ==
    CASE frame = "getStatus" -> getStatus_catch(err)
      [] frame = "search" -> search_catch(err)
      [] frame = "getTimeline" -> getTimeline_catch(err)
      [] frame = "getRecentContext" -> getRecentContext_catch(err)
      [] frame = "addObservation" -> addObservation_catch(err)
      [] frame = "getStats" -> getStats_catch(err)
      [] frame = "searchByType" -> searchByType_catch(err)
      [] frame = "getHowItWorks" -> getHowItWorks_catch(args.query, err)

\* ------------------------------------------------------- the public methods
getStatus ==
    /\ pc = "idle"
    /\ Direct("getStatus", NoArgs, "getStatus", getStatus_request)

search ==
    /\ pc = "idle"
    /\ \E query \in Queries, options \in SearchOptions :
        Direct("search", [query |-> query, options |-> options], "search",
               search_request(query, options))

getTimeline ==
    /\ pc = "idle"
    /\ \E options \in TimelineOptions :
        Direct("getTimeline", [options |-> options], "getTimeline",
               getTimeline_request(options))

getRecentContext ==
    /\ pc = "idle"
    /\ \E options \in ContextOptions :
        Direct("getRecentContext", [options |-> options], "getRecentContext",
               getRecentContext_request(options))

addObservation ==
    /\ pc = "idle"
    /\ \E params \in AddObservationParams :
        Direct("addObservation", [params |-> params], "addObservation",
               addObservation_request(params))

getStats ==
    /\ pc = "idle"
    /\ Direct("getStats", NoArgs, "getStats", getStats_request)

searchByType ==
    /\ pc = "idle"
    /\ \E type \in ObservationTypes, limit \in Limits :
        Direct("searchByType", [type |-> type, options |-> [limit |-> limit]],
               "searchByType", searchByType_request(type, [limit |-> limit]))

\* getDecisions returns the searchByType call it makes.
getDecisions ==
    /\ pc = "idle"
    /\ \E limit \in Limits :
        Direct("getDecisions", [limit |-> limit], "searchByType",
               getDecisions_request(limit))

getHowItWorks ==
    /\ pc = "idle"
    /\ \E query \in Queries :
        Direct("getHowItWorks", [query |-> query], "getHowItWorks",
               getHowItWorks_request(query))

\* --------------------------------------------------- the service, the timer
Deadline == reqs[Len(reqs)].start + reqs[Len(reqs)].req.timeout
InFlight == pc \in {"fetch", "json"}

\* The response's status line arrives.
Responds ==
    /\ pc = "fetch"
    /\ now < Deadline
    /\ \E status \in StatusCodes :
        /\ outs' = IF Ok(status) THEN outs
                   ELSE Append(outs, Settled("status", status, Undefined))
        /\ Continue(AfterFetch(status))
    /\ now' = now

\* The connection fails: fetch rejects.
FetchFails ==
    /\ pc = "fetch"
    /\ now < Deadline
    /\ outs' = Append(outs, Settled("network", 0, Undefined))
    /\ Continue(Catch(NetworkError))
    /\ now' = now

\* The body arrives and parses: res.json() resolves.
JsonResolves ==
    /\ pc = "json"
    /\ now < Deadline
    /\ \E data \in Bodies :
        /\ outs' = Append(outs, Settled("ok", 0, data))
        /\ Continue(AfterJson(data))
    /\ now' = now

\* The body is no JSON: res.json() rejects.
JsonRejects ==
    /\ pc = "json"
    /\ now < Deadline
    /\ outs' = Append(outs, Settled("parse", 0, Undefined))
    /\ Continue(Catch(SyntaxError))
    /\ now' = now

\* AbortSignal.timeout fires: the pending fetch or res.json() rejects.
TimesOut ==
    /\ InFlight
    /\ now = Deadline
    /\ outs' = Append(outs, Settled("timeout", 0, Undefined))
    /\ Continue(Catch(TimeoutError))
    /\ now' = now

\* Time passes, never beyond the pending request's deadline.
Tick ==
    /\ InFlight
    /\ now < Deadline
    /\ now' = Min(now + TickMs, Deadline)
    /\ UNCHANGED <<caller, op, args, frame, pc, reqs, outs, ret, inner, tool,
                   outcome>>

\* The promise of a method that returned another method's call settles as
\* that call did (getDecisions, the fallback of getHowItWorks).
Adopt ==
    /\ pc = "adopt"
    /\ pc' = "done"
    /\ ret' = inner
    /\ UNCHANGED <<caller, op, args, frame, reqs, outs, now, inner, tool, outcome>>

\* -------------------------------------------------- the host and the adapter
\* The host asks a tool factory for its tool.
Factory(made) ==
    /\ tool' = made
    /\ caller' = "none"
    /\ op' = "none"
    /\ args' = NoArgs
    /\ frame' = "none"
    /\ pc' = "idle"
    /\ reqs' = <<>>
    /\ outs' = <<>>
    /\ now' = 0
    /\ ret' = NoCompletion
    /\ inner' = NoCompletion
    /\ outcome' = NoOutcome

claudemem_search_register ==
    /\ pc = "idle"
    /\ \E ctxConfig \in FactoryConfigs : Factory(claudemem_search_factory(ctxConfig))

claudemem_timeline_register ==
    /\ pc = "idle"
    /\ \E ctxConfig \in FactoryConfigs : Factory(claudemem_timeline_factory(ctxConfig))

claudemem_context_register ==
    /\ pc = "idle"
    /\ \E ctxConfig \in FactoryConfigs : Factory(claudemem_context_factory(ctxConfig))

\* The host runs a tool it was given: execute calls the client.
Execute(input, method, a, req) ==
    /\ Quiet
    /\ tool.present
    /\ Begin("tool", method, a, method, req)
    /\ outcome' = Pending
    /\ tool' = tool

claudemem_search_execute ==
    /\ tool.name = "claudemem_search"
    /\ \E input \in SearchInputs :
        LET options == claudemem_search_options(tool.config, input)
        IN  Execute(input, "search", [query |-> input.query, options |-> options],
                    search_request(input.query, options))

claudemem_timeline_execute ==
    /\ tool.name = "claudemem_timeline"
    /\ \E input \in TimelineInputs :
        LET options == claudemem_timeline_options(input)
        IN  Execute(input, "getTimeline", [options |-> options],
                    getTimeline_request(options))

claudemem_context_execute ==
    /\ tool.name = "claudemem_context"
    /\ \E input \in ContextInputs :
        LET options == claudemem_context_options(input)
        IN  Execute(input, "getRecentContext", [options |-> options],
                    getRecentContext_request(options))

\* execute resumes once the client call has settled.
ToolFormat ==
    CASE ret.thrown -> Raised(ret.value)
      [] tool.name = "claudemem_search" -> claudemem_search_format(ret.value)
      [] tool.name = "claudemem_timeline" -> claudemem_timeline_format(ret.value)
      [] tool.name = "claudemem_context" -> claudemem_context_format(ret.value)

ExecuteResumes ==
    /\ caller = "tool"
    /\ pc = "done"
    /\ outcome.state = "pending"
    /\ outcome' = ToolFormat
    /\ UNCHANGED <<caller, op, args, frame, pc, reqs, outs, now, ret, inner, tool>>

\* The host fires the afterAgentResponse hook.
afterAgentResponse ==
    \E ctxConfig \in HookConfigs, event \in Events :
        LET c == afterAgentResponse_start(ctxConfig, event)
        IN  /\ pc = "idle"
            /\ caller' = "hook"
            /\ args' = [config |-> ctxConfig, event |-> event]
            /\ tool' = NoTool
            /\ outs' = <<>>
            /\ now' = 0
            /\ ret' = NoCompletion
            /\ inner' = NoCompletion
            /\ IF c.k = "call"
               THEN /\ op' = c.method
                    /\ frame' = c.method
                    /\ pc' = "fetch"
                    /\ reqs' = <<[req |-> c.req, start |-> 0]>>
                    /\ outcome' = Pending
               ELSE /\ op' = "none"
                    /\ frame' = "none"
                    /\ pc' = "idle"
                    /\ reqs' = <<>>
                    /\ outcome' = IF c.k = "throw" THEN Raised(c.value)
                                  ELSE Output("", 0, Undefined)

\* The hook resumes once addObservation has settled.
HookResumes ==
    /\ caller = "hook"
    /\ pc = "done"
    /\ outcome.state = "pending"
    /\ outcome' = afterAgentResponse_resume(ret)
    /\ UNCHANGED <<caller, op, args, frame, pc, reqs, outs, now, ret, inner, tool>>

\* The caller has taken the result: nothing of a call outlives it, and the
\* tool stays with the host.
Discard ==
    /\ pc = "done"
    /\ outcome.state # "pending"
    /\ caller' = "none"
    /\ op' = "none"
    /\ args' = NoArgs
    /\ frame' = "none"
    /\ pc' = "idle"
    /\ reqs' = <<>>
    /\ outs' = <<>>
    /\ now' = 0
    /\ ret' = NoCompletion
    /\ inner' = NoCompletion
    /\ outcome' = NoOutcome
    /\ tool' = tool

Next ==
    \/ getStatus
    \/ search
    \/ getTimeline
    \/ getRecentContext
    \/ addObservation
    \/ getStats
    \/ searchByType
    \/ getDecisions
    \/ getHowItWorks
    \/ Responds
    \/ FetchFails
    \/ JsonResolves
    \/ JsonRejects
    \/ TimesOut
    \/ Tick
    \/ Adopt
    \/ claudemem_search_register
    \/ claudemem_timeline_register
    \/ claudemem_context_register
    \/ claudemem_search_execute
    \/ claudemem_timeline_execute
    \/ claudemem_context_execute
    \/ ExecuteResumes
    \/ afterAgentResponse
    \/ HookResumes
    \/ Discard

Spec == Init /\ [][Next]_vars

\* ------------------------------------------------------------------ claims
ListOps ==
    {"search", "getTimeline", "getRecentContext", "searchByType",
     "getDecisions", "getHowItWorks"}
SingleOps ==
    {"getStatus", "search", "getTimeline", "addObservation", "getStats",
     "searchByType", "getDecisions"}
FallbackOps == {"getRecentContext", "getHowItWorks"}

\* The wrapper field each list operation reads.
NamedField(o) ==
    IF o \in {"search", "getHowItWorks"} THEN "results" ELSE "observations"

\* The timeout the specification gives each operation.
TimeoutOf(o) ==
    CASE o = "getStatus" -> HealthTimeoutMs
      [] o = "getStats" -> StatsTimeoutMs
      [] OTHER -> RequestTimeoutMs

\* The documented safe default of each operation.
IsSafeDefault(o, value) ==
    CASE o \in ListOps -> value = Arr(<<>>)
      [] o = "addObservation" -> value = [success |-> FALSE, id |-> Undefined]
      [] o = "getStats" -> value = Obj(Undefined, Undefined, Undefined, Undefined)
      [] o = "getStatus" ->
            /\ value.running = FALSE
            /\ value.version = Undefined
            /\ value.error.t = "string"

Done == pc = "done"
LastOut == outs[Len(outs)]
LastFailed == Len(outs) > 0 /\ LastOut.kind # "ok"
LastOk == Len(outs) > 0 /\ LastOut.kind = "ok"

\* C1: every public client method settles with a value and never throws or
\* rejects, whatever became of its requests; when the last request it issued
\* failed (network error, timeout, non-success status, malformed JSON) the
\* value is the operation's safe default.
C1_NeverThrowsSafeDefault ==
    /\ ~ret.thrown
    /\ ~inner.thrown
    /\ Done => Len(outs) = Len(reqs)
    /\ Done /\ LastFailed => IsSafeDefault(op, ret.value)

C1_Witness ==
    /\ Done
    /\ op = "getStats"
    /\ LastOut.kind = "parse"
    /\ ret.value = EmptyObject

\* C2: in getRecentContext a non-success status of the primary request is
\* followed by exactly one request to /api/context/inject with the same
\* query parameters, issued once the primary has completed; the fallback's
\* payload is returned when it succeeds and an empty sequence when it fails.
C2_RecentContextFallback ==
    op = "getRecentContext" /\ Len(outs) >= 1 /\ outs[1].kind = "status" =>
        /\ Len(reqs) = 2
        /\ reqs[2].req.method = "GET"
        /\ reqs[2].req.path = "/api/context/inject"
        /\ reqs[2].req.params = reqs[1].req.params
        /\ reqs[2].start >= outs[1].at
        /\ Done =>
            /\ Len(outs) = 2
            /\ ~ret.thrown
            /\ outs[2].kind # "ok" => ret.value = Arr(<<>>)
            /\ outs[2].kind = "ok" /\ outs[2].data.t = "array" =>
                   ret.value = outs[2].data
            /\ outs[2].kind = "ok" /\ outs[2].data.t = "object"
                   /\ outs[2].data.observations.t = "array" =>
                   ret.value = outs[2].data.observations

C2_Witness ==
    /\ Done
    /\ op = "getRecentContext"
    /\ Len(outs) = 2
    /\ outs[1].kind = "status"
    /\ outs[2].kind = "ok"
    /\ ret.value = Arr(<<1, 2>>)
    /\ reqs[2].req.params # <<>>

\* C3: in getHowItWorks a non-success status of /api/how-it-works is followed
\* by exactly one GET /api/search with the same query and limit 10, and
\* getHowItWorks returns what that search call returns: its result list, or
\* an empty sequence when the search fails.
C3_HowItWorksFallback ==
    op = "getHowItWorks" /\ Len(outs) >= 1 /\ outs[1].kind = "status" =>
        /\ Len(reqs) = 2
        /\ reqs[2].req.method = "GET"
        /\ reqs[2].req.path = "/api/search"
        /\ reqs[2].req.params = << <<"query", args.query>>, <<"limit", "10">> >>
        /\ Done =>
            /\ Len(outs) = 2
            /\ ret = inner
            /\ ~ret.thrown
            /\ outs[2].kind # "ok" => ret.value = Arr(<<>>)
            /\ outs[2].kind = "ok" /\ outs[2].data.t = "array" =>
                   ret.value = outs[2].data
            /\ outs[2].kind = "ok" /\ outs[2].data.t = "object"
                   /\ outs[2].data.results.t = "array" =>
                   ret.value = outs[2].data.results

C3_Witness ==
    /\ Done
    /\ op = "getHowItWorks"
    /\ args.query = "beta"
    /\ Len(outs) = 2
    /\ outs[1].kind = "status"
    /\ outs[2].kind = "ok"
    /\ ret.value = Arr(<<1>>)

\* C4: for each list-returning operation, a successful response whose body
\* is the bare array A and one whose body is the wrapper holding A under the
\* operation's named field both make the operation return A.
C4_ShapeTolerance ==
    Done /\ op \in ListOps /\ LastOk =>
        /\ LastOut.data.t = "array" => ret.value = LastOut.data
        /\ LastOut.data.t = "object"
               /\ LastOut.data[NamedField(op)].t = "array" =>
               ret.value = LastOut.data[NamedField(op)]

C4_Witness ==
    /\ Done
    /\ op = "getTimeline"
    /\ LastOk
    /\ LastOut.data.t = "object"
    /\ LastOut.data.observations = Arr(<<1, 2>>)
    /\ LastOut.data.results = Arr(<<1>>)
    /\ ret.value = Arr(<<1, 2>>)

\* C5: a successful response whose body is neither a sequence nor a wrapper
\* exposing the operation's named field makes a list-returning operation
\* return an empty sequence, so what such an operation returns is always a
\* sequence.
C5_AlwaysSequence ==
    Done /\ op \in ListOps =>
        /\ ret.value.t = "array"
        /\ LastOk /\ LastOut.data.t # "array"
               /\ ~(/\ LastOut.data.t = "object"
                    /\ LastOut.data[NamedField(op)].t # "undefined") =>
               ret.value = Arr(<<>>)

\* C6: the afterAgentResponse hook issues exactly one add-observation request
\* when the integration and auto-capture are enabled and the response has at
\* least 100 characters, and none otherwise; the observation is a
\* "discovery" with no concepts or files, the event's session id and the
\* first 1000 characters of the response; and the hook never raises.
HookEnabled == Nullish(args.config) \/ args.config.enabled # Bool(FALSE)
HookAutoCapture == Nullish(args.config) \/ args.config.autoCapture # Bool(FALSE)
HookLongEnough ==
    args.event.response.t = "string" /\ Len(args.event.response.v) >= 100
HookCaptures == HookEnabled /\ HookAutoCapture /\ HookLongEnough
FirstThousand(text) ==
    [i \in 1..(IF Len(text) < 1000 THEN Len(text) ELSE 1000) |-> text[i]]

C6_HookCapture ==
    caller = "hook" =>
        /\ Len(reqs) = (IF HookCaptures THEN 1 ELSE 0)
        /\ outcome.state # "threw"
        /\ ~HookCaptures => outcome.state = "returned"
        /\ Done => ~ret.thrown
        /\ HookCaptures =>
            /\ reqs[1].req.method = "POST"
            /\ reqs[1].req.path = "/api/sessions/observations"
            /\ reqs[1].req.body =
                   << [type |-> Str("discovery"),
                       content |-> Text(FirstThousand(args.event.response.v)),
                       concepts |-> Arr(<<>>),
                       files |-> Arr(<<>>),
                       session_id |-> args.event.sessionId] >>

C6_Witness ==
    /\ caller = "hook"
    /\ outcome.state = "returned"
    /\ Len(reqs) = 1
    /\ LastOut.kind = "network"
    /\ Len(args.event.response.v) > 1000
    /\ Len(reqs[1].req.body[1].content.v) = 1000

\* C7: with enabled = false each tool factory yields no tool and the hook
\* returns without acting, so neither a tool nor the hook issues a request or
\* raises; with enabled true or unset each factory yields its tool.
C7_EnabledGate ==
    /\ tool.name # "none" =>
           (tool.present <=> tool.config.enabled \in {Undefined, Bool(TRUE)})
    /\ tool.name # "none" /\ tool.config.enabled = Bool(FALSE) =>
           /\ ~tool.present
           /\ caller = "none"
           /\ reqs = <<>>
           /\ outcome.state = "none"
    /\ caller = "tool" => tool.present
    /\ caller = "hook" /\ ~HookEnabled =>
           /\ reqs = <<>>
           /\ op = "none"
           /\ outcome.state = "returned"

C7_Witness ==
    /\ tool.name = "claudemem_context"
    /\ ~tool.present
    /\ tool.config.enabled = Bool(FALSE)

\* C8 as stated: when a request times out the operation returns its safe
\* default no later than its timeout (3 s, 5 s, 10 s) after the call began,
\* the operations with a fallback included.
C8_BoundedFromCallStart ==
    Done /\ Len(outs) > 0 /\ LastOut.kind = "timeout" =>
        /\ IsSafeDefault(op, ret.value)
        /\ now <= TimeoutOf(op)

\* C8 amended: when a request times out the operation returns its safe
\* default no later than its timeout after that request was issued; a call
\* that made one request ends within the timeout of its start, and a call
\* that fell back within twice the timeout.
C8_BoundedPerRequest ==
    Done /\ Len(outs) > 0 /\ LastOut.kind = "timeout" =>
        /\ ~ret.thrown
        /\ IsSafeDefault(op, ret.value)
        /\ now - reqs[Len(reqs)].start <= TimeoutOf(op)
        /\ now <= Len(reqs) * TimeoutOf(op)
        /\ op \notin FallbackOps => now <= TimeoutOf(op)

C8_Witness ==
    /\ Done
    /\ op = "getRecentContext"
    /\ Len(reqs) = 2
    /\ LastOut.kind = "timeout"
    /\ now > TimeoutOf(op)

\* C9: addObservation issues one POST to /api/sessions/observations whose
\* body carries type, content and session_id from the input and concepts and
\* files as given, or as empty arrays when omitted; a success response
\* {id: n} yields {success: true, id: n} and any failure {success: false}.
C9_AddObservation ==
    caller = "direct" /\ op = "addObservation" =>
        /\ Len(reqs) = 1
        /\ reqs[1].req.method = "POST"
        /\ reqs[1].req.path = "/api/sessions/observations"
        /\ reqs[1].req.body =
               << [type |-> args.params.type,
                   content |-> args.params.content,
                   concepts |-> IF args.params.concepts.t = "undefined"
                                THEN Arr(<<>>) ELSE args.params.concepts,
                   files |-> IF args.params.files.t = "undefined"
                             THEN Arr(<<>>) ELSE args.params.files,
                   session_id |-> args.params.sessionId] >>
        /\ Done /\ LastFailed => ret.value = [success |-> FALSE, id |-> Undefined]
        /\ Done /\ LastOk /\ LastOut.data.t = "object"
               /\ LastOut.data.id.t = "number" =>
               ret.value = [success |-> TRUE, id |-> LastOut.data.id]

C9_Witness ==
    /\ Done
    /\ caller = "direct"
    /\ op = "addObservation"
    /\ args.params.concepts = Undefined
    /\ args.params.files = Undefined
    /\ ret.value = [success |-> TRUE, id |-> Num(42)]

\* C10: a call of a public client method issues at most two requests; the
\* single-endpoint operations issue exactly one; getRecentContext and
\* getHowItWorks issue a second only after the first has completed with a
\* non-success status, never after a success, a network error, a timeout or
\* a malformed body, and never while the first is in flight.
C10_RequestCount ==
    /\ Len(reqs) <= 2
    /\ Len(outs) <= Len(reqs)
    /\ Len(reqs) <= Len(outs) + 1
    /\ op \in SingleOps => Len(reqs) = 1
    /\ op \in FallbackOps => Len(reqs) >= 1
    /\ Len(reqs) = 2 =>
        /\ op \in FallbackOps
        /\ outs[1].kind = "status"
        /\ ~(outs[1].status >= 200 /\ outs[1].status <= 299)
        /\ reqs[2].start >= outs[1].at
    /\ Done /\ op \in FallbackOps /\ outs[1].kind # "status" => Len(reqs) = 1

C10_Witness ==
    /\ Done
    /\ op = "getHowItWorks"
    /\ Len(reqs) = 2
    /\ outs[1].kind = "status"
    /\ outs[1].status = 301

====
